---- MODULE Spec2Model ----
(***************************************************************************)
(* Browns dry-ice inventory: the analyzer's closed-form policy numbers,    *)
(* the InventoryTracker ledger, the SmartAlerts dispatcher, the Streamlit  *)
(* dashboard script that drives them, and the PDF report generator with    *)
(* its versioned output files.                                             *)
(*                                                                         *)
(* Numbers.  Stock and order quantities are whole kilograms.  The cost     *)
(* parameters of config/constants.py are kept in hundredths (146.55 is     *)
(* 14655).  A real-valued result (a square root, a mean) is kept as the    *)
(* whole number of kilograms below it; for an integral stock s and a real  *)
(* x, s <= x exactly when s <= floor(x), so a comparison of the stock with *)
(* one such value is exact.  A pandas NaN is the value NaN below, and      *)
(* every ordered comparison with it is false, as in IEEE arithmetic.       *)
(* Timestamps (datetime.now()) are left out of the records: no operation   *)
(* reads them.                                                             *)
(***************************************************************************)
EXTENDS Integers, Sequences, FiniteSets, TLC

VARIABLES
    df,             \* DataLoader.df: the loaded orders, sorted by Date
    current_stock,  \* InventoryTracker.current_stock
    stock_history,  \* InventoryTracker.stock_history
    alerts,         \* SmartAlerts.alerts
    call,           \* the last operation performed: name, arguments, return value
    roundtrip,      \* set by a receipt of q that directly follows a consumption of q
    files,          \* the file system under reports/: path -> content
    threads,        \* the callers running a ledger operation step by step
    active_integrations     \* SystemIntegrations.active_integrations

vars ==
    <<df, current_stock, stock_history, alerts, call, roundtrip, files, threads,
      active_integrations>>

(***************************************************************************)
(* Bounds of the model.                                                    *)
(***************************************************************************)
MaxOrders == 2      \* rows of the dataset
MaxHistory == 2     \* ledger operations performed while the log is shorter
MaxAlerts == 2      \* alert operations performed while the list is shorter
MaxThreads == 2     \* concurrent callers of the ledger
MaxFiles == 3       \* reports are generated while reports/ holds fewer files

Dates == {1, 301}               \* calendar days inside the analysis window
OrderQuantities == {0, 150}     \* Order_Quantity_kg of a row (no row is validated)
UsageQuantities == {0, 1, 2500}  \* quantities typed into the sidebar

(***************************************************************************)
(* config/constants.py                                                     *)
(***************************************************************************)
PRICE_PER_KG == 14655       \* 146.55, in hundredths
CONTAINER_SIZE == 150
TRANSPORT_COST == 174194    \* 1741.94, in hundredths
HOLDING_RATE == 3           \* 0.03, in hundredths
LEAD_TIME_DAYS == 1
ZScore == 1645              \* norm.ppf(SERVICE_LEVEL = 0.95) = 1.645, in thousandths
ALERT_CHANNELS == <<"email", "sms", "dashboard">>
INITIAL_STOCK == 2000       \* main.py: InventoryTracker(initial_stock=2000, ...)

(***************************************************************************)
(* Arithmetic.                                                             *)
(***************************************************************************)
None == [kind |-> "None"]

\* a float: NaN, an infinity (inf is its sign) or the finite value val
NaN == [nan |-> TRUE, inf |-> 0, val |-> 0]
Float(v) == [nan |-> FALSE, inf |-> 0, val |-> v]
Inf == [nan |-> FALSE, inf |-> 1, val |-> 0]
NegInf == [nan |-> FALSE, inf |-> -1, val |-> 0]

\* x > 0 for a float x (false for NaN)
FloatPositive(x) == ~x.nan /\ (x.inf = 1 \/ (x.inf = 0 /\ x.val > 0))

\* x + y for floats
FloatAdd(x, y) ==
    IF x.nan \/ y.nan \/ x.inf * y.inf = -1 THEN NaN
    ELSE IF x.inf # 0 THEN x
    ELSE IF y.inf # 0 THEN y
    ELSE Float(x.val + y.val)

\* x - y for floats
FloatSub(x, y) ==
    FloatAdd(x, IF y.nan THEN NaN
                ELSE IF y.inf = 1 THEN NegInf
                ELSE IF y.inf = -1 THEN Inf
                ELSE Float(-y.val))

Abs(x) == IF x < 0 THEN -x ELSE x

Max(a, b) == IF a >= b THEN a ELSE b

RECURSIVE MulDivQR(_, _, _)
\* <<q, r>> with a * b = q * c + r and 0 <= r < c, without forming a * b
MulDivQR(a, b, c) ==
    IF b = 0 THEN <<0, 0>>
    ELSE LET h == MulDivQR(a, b \div 2, c)
             t == 2 * h[2] + (IF b % 2 = 1 THEN a ELSE 0)
         IN  <<2 * h[1] + t \div c, t % c>>

\* floor(a * b / c) for a, b >= 0 and c > 0
MulDiv(a, b, c) == MulDivQR(a, b, c)[1]

RECURSIVE ISqrt(_)
\* np.sqrt, rounded down: the largest r with r * r <= n
ISqrt(n) ==
    IF n < 2 THEN n
    ELSE LET s == 2 * ISqrt(n \div 4)
         IN  IF (s + 1) * (s + 1) <= n THEN s + 1 ELSE s

RECURSIVE SeqSum(_)
SeqSum(s) == IF s = <<>> THEN 0 ELSE Head(s) + SeqSum(Tail(s))

RECURSIVE SetSum(_, _)
\* sum of f[x] over the set S
SetSum(f, S) ==
    IF S = {} THEN 0
    ELSE LET x == CHOOSE y \in S : TRUE IN f[x] + SetSum(f, S \ {x})

(***************************************************************************)
(* DataLoader: the datasets load_orders can produce.                       *)
(***************************************************************************)
Order == [Date : Dates, Order_Quantity_kg : OrderQuantities]

\* load_orders ends with sort_values('Date')
SortedByDate(d) == \A i \in 1..(Len(d) - 1) : d[i].Date <= d[i + 1].Date

Datasets ==
    {d \in UNION {[1..n -> Order] : n \in 1..MaxOrders} : SortedByDate(d)}

Quantities(d) == [i \in 1..Len(d) |-> d[i].Order_Quantity_kg]

\* the days 2024-07-01 .. 2025-06-30, numbered from 1
Window == 1..365

\* the rows pd.read_csv can hand to load_orders: day 0 lies before the window
CsvDates == {0, 1, 301}

CsvQuantities == {0, 1, 150, 151}

CsvRow == [Date : CsvDates, Order_Quantity_kg : CsvQuantities]

CsvFiles == UNION {[1..n -> CsvRow] : n \in 0..MaxOrders}

\* a container count rounded down
containers_used_floor(quantity) == quantity \div CONTAINER_SIZE

\* np.ceil(df['Order_Quantity_kg'] / CONTAINER_SIZE), for a quantity >= 0
containers_used(quantity) == (quantity + CONTAINER_SIZE - 1) \div CONTAINER_SIZE

RECURSIVE sort_values(_)
\* df.sort_values('Date'): rows of the same day keep their order
sort_values(rows) ==
    IF rows = <<>> THEN <<>>
    ELSE LET first == CHOOSE i \in 1..Len(rows) :
                          \A j \in 1..Len(rows) :
                              \/ rows[i].Date < rows[j].Date
                              \/ rows[i].Date = rows[j].Date /\ i <= j
             rest == [j \in 1..(Len(rows) - 1) |->
                         IF j < first THEN rows[j] ELSE rows[j + 1]]
         IN  <<rows[first]>> \o sort_values(rest)

\* load_orders: keep the rows of the window, add Containers_Used, sort by date
load_orders(rows) ==
    LET in_window == SelectSeq(rows, LAMBDA row : row.Date \in Window)
        with_containers ==
            [i \in 1..Len(in_window) |->
                [Date |-> in_window[i].Date,
                 Order_Quantity_kg |-> in_window[i].Order_Quantity_kg,
                 Containers_Used |-> containers_used(in_window[i].Order_Quantity_kg)]]
    IN  sort_values(with_containers)

(***************************************************************************)
(* DryIceAnalyzer                                                          *)
(***************************************************************************)
\* df.groupby(df['Date'].dt.date)['Order_Quantity_kg'].sum()
DailyDemand(d) ==
    LET days == {d[i].Date : i \in 1..Len(d)}
    IN  [day \in days |->
            SetSum([i \in 1..Len(d) |-> d[i].Order_Quantity_kg],
                   {i \in 1..Len(d) : d[i].Date = day})]

\* n(n-1) times the sample variance (ddof = 1) of the values f[x], x in S
VarianceNum(f, S) ==
    LET n == Cardinality(S)
        s1 == SetSum(f, S)
        s2 == SetSum([x \in S |-> f[x] * f[x]], S)
    IN  n * s2 - s1 * s1

\* Series.std(): NaN for fewer than two values
SampleStd(f, S) ==
    LET n == Cardinality(S)
    IN  IF n < 2 THEN NaN
        ELSE Float(ISqrt(VarianceNum(f, S) \div (n * (n - 1))))

\* (df['Date'].max() - df['Date'].min()).days, df being sorted by Date
time_span_days(d) == d[Len(d)].Date - d[1].Date

\* the KPIs with a time span of 0 days counted as one day
calculate_kpis_span_of_one(d) ==
    LET n == Len(d)
        total_volume == SeqSum(Quantities(d))
        span == Max(1, time_span_days(d))
    IN  [total_orders |-> n,
         total_volume |-> total_volume,
         avg_order_size |-> [num |-> total_volume, den |-> n],
         std_order_size |-> SampleStd(Quantities(d), 1..n),
         avg_monthly_demand |-> [num |-> total_volume * 30, den |-> n],
         current_monthly_volume |-> [num |-> total_volume * 30, den |-> span],
         order_frequency |-> [num |-> n * 30, den |-> span]]

\* the ratios (avg_order_size, ...) are kept as fractions num / den
calculate_kpis(d) ==
    LET n == Len(d)
        total_volume == SeqSum(Quantities(d))
        avg_monthly_demand == [num |-> total_volume * 30, den |-> n]
        span == time_span_days(d)
    IN  [total_orders |-> n,
         total_volume |-> total_volume,
         avg_order_size |-> [num |-> total_volume, den |-> n],
         std_order_size |-> SampleStd(Quantities(d), 1..n),
         avg_monthly_demand |-> avg_monthly_demand,
         current_monthly_volume |->
             IF span > 0 THEN [num |-> total_volume * 30, den |-> span]
             ELSE avg_monthly_demand,
         order_frequency |->
             IF span > 0 THEN [num |-> n * 30, den |-> span]
             ELSE [num |-> 30, den |-> 1]]

\* calculate_kpis, 'container_utilization': Order_Quantity_kg.sum() /
\* (Containers_Used.sum() * CONTAINER_SIZE), kept as a fraction num / den; a
\* division by 0 in numpy gives nan for 0 / 0 and inf otherwise
container_utilization(d) ==
    LET total == SeqSum(Quantities(d))
        containers == SeqSum([i \in 1..Len(d) |-> d[i].Containers_Used])
    IN  IF containers * CONTAINER_SIZE = 0
        THEN IF total = 0 THEN NaN ELSE Inf
        ELSE [nan |-> FALSE, inf |-> FALSE,
              num |-> total, den |-> containers * CONTAINER_SIZE]

\* the formula with the holding cost of the shipped configuration, whatever
\* holding cost it is given
eoq_formula_fixed_holding_cost(demand, transport_cost, holding_cost) ==
    ISqrt(MulDiv(transport_cost * 100, 2 * demand.num,
                 HOLDING_RATE * PRICE_PER_KG * demand.den))

\* an EOQ that takes the negative square root
eoq_formula_negative_root(demand, transport_cost, holding_cost) ==
    -ISqrt(MulDiv(transport_cost * 100, 2 * demand.num, holding_cost * demand.den))

\* np.sqrt((2 * demand * transport_cost) / holding_cost), rounded down, for a
\* demand num / den, a transport cost in hundredths and a holding cost
\* holding_rate * price_per_kg in ten-thousandths
eoq_formula(demand, transport_cost, holding_cost) ==
    ISqrt(MulDiv(transport_cost * 100, 2 * demand.num, holding_cost * demand.den))

\* sqrt((2 * demand * TRANSPORT_COST) / (HOLDING_RATE * PRICE_PER_KG))
calculate_eoq(d) ==
    eoq_formula(calculate_kpis(d).avg_monthly_demand, TRANSPORT_COST,
                HOLDING_RATE * PRICE_PER_KG)

calculate_safety_stock(d) ==
    LET daily_demand == DailyDemand(d)
        days == DOMAIN daily_demand
        n == Cardinality(days)
    IN  IF n < 2
        THEN \* df['Order_Quantity_kg'].mean() * 0.5
             SeqSum(Quantities(d)) \div (2 * Len(d))
        ELSE \* z_score * daily_std * sqrt(LEAD_TIME_DAYS)
             ISqrt(MulDiv(ZScore * ZScore,
                          VarianceNum(daily_demand, days) * LEAD_TIME_DAYS,
                          1000000 * n * (n - 1)))

\* what the Prophet calls of forecast_demand do: they return a forecast or
\* raise an exception (a subclass of Exception)
ProphetOutcomes == {"forecast", "ValueError", "RuntimeError"}

\* a forecast_demand whose except clause re-raises
forecast_demand_propagates(d, outcome) ==
    IF outcome # "forecast" THEN [kind |-> "raise", exception |-> outcome]
    ELSE [kind |-> "forecast", rows |-> Len(d)]

\* try: ... return forecast / except Exception: return None
forecast_demand(d, outcome) ==
    IF outcome # "forecast" THEN None
    ELSE [kind |-> "forecast", rows |-> Len(d)]

\* (volume / size) * transport_cost + holding_rate * price_per_kg * size / 2,
\* in hundredths, for fractions volume and size that are not negative;
\* a division by 0.0 gives NaN (0 / 0) or infinity
order_cost(volume, size) ==
    LET ordering == IF size.num = 0
                    THEN IF volume.num = 0 THEN NaN ELSE Inf
                    ELSE Float(MulDiv(TRANSPORT_COST, volume.num * size.den,
                                      volume.den * size.num))
        holding == Float(MulDiv(HOLDING_RATE * PRICE_PER_KG, size.num,
                                size.den * 200))
    IN  FloatAdd(ordering, holding)

\* savings / current_order_cost * 100 if current_order_cost > 0 else 0,
\* in hundredths of a percent
percent_of(savings, current_order_cost) ==
    IF ~FloatPositive(current_order_cost) THEN Float(0)
    ELSE IF current_order_cost.inf # 0
    THEN IF savings.inf # 0 THEN NaN ELSE Float(0)
    ELSE IF savings.inf # 0 THEN savings
    ELSE Float(MulDiv(savings.val, 10000, current_order_cost.val))

\* the comparison with the difference of the costs left unclamped
calculate_cost_savings_unclamped(d, eoq) ==
    LET kpis == calculate_kpis(d)
        current_order_cost == order_cost(kpis.current_monthly_volume, kpis.avg_order_size)
        eoq_order_cost == order_cost(kpis.current_monthly_volume, [num |-> eoq, den |-> 1])
        savings == FloatSub(current_order_cost, eoq_order_cost)
    IN  [current_cost |-> current_order_cost,
         eoq_cost |-> eoq_order_cost,
         savings |-> savings,
         percent_savings |-> percent_of(savings, current_order_cost)]

calculate_cost_savings(d, eoq) ==
    LET kpis == calculate_kpis(d)
        current_order_cost == order_cost(kpis.current_monthly_volume, kpis.avg_order_size)
        eoq_order_cost == order_cost(kpis.current_monthly_volume, [num |-> eoq, den |-> 1])
        difference == FloatSub(current_order_cost, eoq_order_cost)
        \* max(0, x) keeps 0 unless x > 0, so it is 0 for a NaN
        savings == IF FloatPositive(difference) THEN difference ELSE Float(0)
    IN  [current_cost |-> current_order_cost,
         eoq_cost |-> eoq_order_cost,
         savings |-> savings,
         percent_savings |-> percent_of(savings, current_order_cost)]

(***************************************************************************)
(* advanced_reporting.py.  A path is the sequence of the pieces of its     *)
(* name; the file system maps the paths that exist to their content.       *)
(* Directories (os.makedirs) are not part of it.                           *)
(***************************************************************************)
\* report_generator.py: f"reports/dry_ice_analysis_report_{self.report_date}.pdf"
BaseFilename == <<"reports/dry_ice_analysis_report", ".pdf">>

\* os.path.splitext: <<name, ext>>
splitext(path) == <<SubSeq(path, 1, Len(path) - 1), path[Len(path)]>>

\* f"{name}_v{version}{ext}"
versioned_name(name, version, ext) == name \o <<"_v", ToString(version), ext>>

\* os.path.exists
exists(fs, path) == path \in DOMAIN fs

RECURSIVE first_free_version(_, _, _, _)
\* the while True loop: the first version from `version` on whose name is free
first_free_version(fs, name, ext, version) ==
    IF ~exists(fs, versioned_name(name, version, ext)) THEN version
    ELSE first_free_version(fs, name, ext, version + 1)

\* a versioning that takes _v1 without looking whether it is free
create_versioned_file_first_version(fs, base_filename) ==
    LET name == splitext(base_filename)[1]
        ext == splitext(base_filename)[2]
    IN  IF ~exists(fs, base_filename) THEN base_filename
        ELSE versioned_name(name, 1, ext)

create_versioned_file(fs, base_filename) ==
    LET name == splitext(base_filename)[1]
        ext == splitext(base_filename)[2]
    IN  IF ~exists(fs, base_filename) THEN base_filename
        ELSE versioned_name(name, first_free_version(fs, name, ext, 1), ext)

\* what fig.write_image does in add_plotly_chart
ChartOutcomes == {"rendered", "Exception"}

\* what pdf.output(versioned_filename) does: it writes the file, or raises
\* before the file is created, or raises after part of it is written
OutputOutcomes == {"written", "not created", "partly written"}

Raise(exception) == [kind |-> "raise", exception |-> exception]

\* _create_charts: fig_forecast stays None without forecast data
fig_forecast_of(forecast_data) ==
    IF forecast_data # None THEN [kind |-> "Figure"] ELSE None

\* the chapters of the document, lines 124-175
report_sections(fig_forecast) ==
    <<"Executive Summary", "Key Performance Indicators (KPIs)", "Top Recommendations",
      IF fig_forecast # None THEN "demand_forecast chart"
      ELSE "Forecast data could not be generated for this report.",
      "cost_comparison chart">>

\* the file system after generate_custom_report(report_type, parameters,
\* filename), and its result: the path written, or the exception re-raised
generate_custom_report(d, fs, filename, forecast_outcome, chart_outcome, output_outcome) ==
    LET forecast_data == forecast_demand(d, forecast_outcome)
        fig_forecast == fig_forecast_of(forecast_data)
        versioned_filename == create_versioned_file(fs, filename)
    IN  IF forecast_data.kind = "raise"
        THEN [files |-> fs, ret |-> forecast_data]
        ELSE IF chart_outcome = "Exception"
        THEN \* add_plotly_chart raises for the first chart it is given
             [files |-> fs, ret |-> Raise(chart_outcome)]
        ELSE IF output_outcome = "not created"
        THEN [files |-> fs, ret |-> Raise("OSError")]
        ELSE IF output_outcome = "partly written"
        THEN [files |-> (versioned_filename :> [kind |-> "partial"]) @@ fs,
              ret |-> Raise("OSError")]
        ELSE [files |-> (versioned_filename :>
                            [kind |-> "pdf", sections |-> report_sections(fig_forecast)])
                        @@ fs,
              ret |-> [kind |-> "path", path |-> versioned_filename]]

\* main.py, the forecast tab: the chart and its summary, or a warning
forecast_tab(forecast_data) ==
    IF fig_forecast_of(forecast_data) # None
    THEN <<"plotly_chart", "Forecast Summary">>
    ELSE <<"Unable to generate forecast. Please check data quality.">>

(***************************************************************************)
(* InventoryTracker                                                        *)
(***************************************************************************)
\* The analyzer is a pure function of the immutable dataset: its results are
\* tabulated once per dataset instead of being recomputed in every state.
\* (f @@ <<>> is f, held as an explicit table.)
eoq_of == [d \in Datasets |-> calculate_eoq(d)] @@ <<>>
safety_stock_of == [d \in Datasets |-> calculate_safety_stock(d)] @@ <<>>
kpis_of == [d \in Datasets |-> calculate_kpis(d)] @@ <<>>

\* a reorder point that leaves the safety stock out
reorder_point_eoq_only == eoq_of[df]

reorder_point ==
    LET eoq == eoq_of[df]
        safety_stock == safety_stock_of[df]
    IN  eoq + safety_stock

safety_stock == safety_stock_of[df]

\* an alert whose priority is taken from the reorder point
send_alert_priority_by_reorder_point(stock, message) ==
    [kind |-> "alert",
     message |-> <<message, stock>>,
     priority |-> IF stock <= reorder_point THEN "HIGH" ELSE "MEDIUM"]

send_alert(stock, message) ==
    [kind |-> "alert",
     message |-> <<message, stock>>,
     priority |-> IF stock <= safety_stock THEN "HIGH" ELSE "MEDIUM"]

\* the reorder test with a strict comparison
check_reorder_point_strict(stock) ==
    IF stock < reorder_point THEN send_alert(stock, "REORDER REQUIRED") ELSE None

check_reorder_point(stock) ==
    IF stock <= reorder_point THEN send_alert(stock, "REORDER REQUIRED") ELSE None

log_transaction(history, stock, quantity, transaction_type) ==
    Append(history,
           [quantity |-> quantity, type |-> transaction_type, balance |-> stock])

\* a consumption that stops at an empty stock
update_stock_clamped(stock, history, quantity_used, transaction_type) ==
    LET s == Max(0, stock - quantity_used)
    IN  [current_stock |-> s,
         stock_history |-> log_transaction(history, s, quantity_used, transaction_type),
         ret |-> check_reorder_point(s)]

\* the tracker after update_stock(quantity_used, transaction_type), and its result
update_stock(stock, history, quantity_used, transaction_type) ==
    LET s == stock - quantity_used
    IN  [current_stock |-> s,
         stock_history |-> log_transaction(history, s, quantity_used, transaction_type),
         ret |-> check_reorder_point(s)]

\* a receipt that takes the quantity off the stock
record_receipt_subtracts(stock, history, new_stock) ==
    LET s == stock - new_stock
    IN  [current_stock |-> s,
         stock_history |-> log_transaction(history, s, new_stock, "Stock Receipt"),
         ret |-> None]

\* a receipt recorded through update_stock with the quantity negated
record_receipt_via_update_stock(stock, history, new_stock) ==
    update_stock(stock, history, -new_stock, "Stock Receipt")

\* main.py, "Record Receipt": current_stock += new_stock; _log_transaction(...)
record_receipt(stock, history, new_stock) ==
    LET s == stock + new_stock
    IN  [current_stock |-> s,
         stock_history |-> log_transaction(history, s, new_stock, "Stock Receipt"),
         ret |-> None]

\* the classification with the safety-stock threshold exclusive
get_stock_status_strict(stock) ==
    IF stock < safety_stock THEN [status |-> "CRITICAL", color |-> "red"]
    ELSE IF stock <= reorder_point THEN [status |-> "LOW", color |-> "orange"]
    ELSE [status |-> "NORMAL", color |-> "green"]

\* the classification with the elif branch lost
get_stock_status_two_bands(stock) ==
    IF stock <= safety_stock THEN [status |-> "CRITICAL", color |-> "red"]
    ELSE [status |-> "NORMAL", color |-> "green"]

get_stock_status(stock) ==
    IF stock <= safety_stock THEN [status |-> "CRITICAL", color |-> "red"]
    ELSE IF stock <= reorder_point THEN [status |-> "LOW", color |-> "orange"]
    ELSE [status |-> "NORMAL", color |-> "green"]

\* a history that hands out the ledger's own list
get_stock_history_same_list(history) == [kind |-> "list", rows |-> history]

\* pd.DataFrame(self.stock_history): a new table holding the rows of the log
get_stock_history(history) == [kind |-> "DataFrame", rows |-> history]

(***************************************************************************)
(* SmartAlerts                                                             *)
(***************************************************************************)
\* the table with the priorities of the two stock alerts exchanged
alert_types_swapped ==
    [LOW_STOCK |-> [threshold |-> "safety_stock", priority |-> "MEDIUM"],
     REORDER_DUE |-> [threshold |-> "reorder_point", priority |-> "HIGH"],
     UNUSUAL_DEMAND |-> [threshold |-> "2_std_dev", priority |-> "MEDIUM"],
     COST_SPIKE |-> [threshold |-> "10_percent", priority |-> "LOW"]]

alert_types ==
    [LOW_STOCK |-> [threshold |-> "safety_stock", priority |-> "HIGH"],
     REORDER_DUE |-> [threshold |-> "reorder_point", priority |-> "MEDIUM"],
     UNUSUAL_DEMAND |-> [threshold |-> "2_std_dev", priority |-> "MEDIUM"],
     COST_SPIKE |-> [threshold |-> "10_percent", priority |-> "LOW"]]

\* the alert send_notification builds (channels default to ALERT_CHANNELS)
new_alert(alert_type, message) ==
    [type |-> alert_type,
     message |-> message,
     priority |-> alert_types[alert_type].priority,
     channels |-> ALERT_CHANNELS,
     status |-> "PENDING"]

\* a notification that is dropped when the same alert is already pending
send_notification_deduplicated(al, alert_type, message) ==
    IF \E i \in 1..Len(al) : al[i] = new_alert(alert_type, message)
    THEN al ELSE Append(al, new_alert(alert_type, message))

\* self.alerts after send_notification(alert_type, message)
send_notification(al, alert_type, message) ==
    Append(al, new_alert(alert_type, message))

\* the demand rule with an inclusive comparison
demand_anomaly_inclusive(current_demand, avg_demand, std_demand) ==
    /\ ~std_demand.nan
    /\ Abs(current_demand - avg_demand) >= 2 * std_demand.val

\* abs(current_demand - avg_demand) > 2 * std_demand
demand_anomaly(current_demand, avg_demand, std_demand) ==
    /\ ~std_demand.nan
    /\ Abs(current_demand - avg_demand) > 2 * std_demand.val

\* the cost rule with an inclusive comparison
cost_spike_inclusive(current_cost, avg_cost) == 10 * current_cost >= 11 * avg_cost

\* current_cost > avg_cost * 1.1, both in hundredths
cost_spike(current_cost, avg_cost) == 10 * current_cost > 11 * avg_cost

\* self.alerts after check_conditions(...), which is also what it returns
check_conditions(al, stock, current_demand, avg_demand, std_demand, current_cost, avg_cost) ==
    LET stock_status == get_stock_status(stock)
        a1 == IF stock_status.status = "CRITICAL"
              THEN send_notification(al, "LOW_STOCK", <<"CRITICAL stock level", stock>>)
              ELSE IF stock_status.status = "LOW"
              THEN send_notification(al, "REORDER_DUE", <<"Low stock level", stock>>)
              ELSE al
        a2 == IF demand_anomaly(current_demand, avg_demand, std_demand)
              THEN send_notification(a1, "UNUSUAL_DEMAND",
                       <<"Unusual demand detected", current_demand, avg_demand>>)
              ELSE a1
        a3 == IF cost_spike(current_cost, avg_cost)
              THEN send_notification(a2, "COST_SPIKE",
                       <<"Cost spike detected", current_cost, avg_cost>>)
              ELSE a2
    IN  a3

\* a result holding only the alerts this call appended
check_conditions_return_new_only(before, after) ==
    [kind |-> "list", rows |-> SubSeq(after, Len(before) + 1, Len(after))]

\* return self.alerts: the whole list as the call leaves it, before being
\* self.alerts when the call began
check_conditions_return(before, after) == [kind |-> "list", rows |-> after]

\* the list returned without the status filter
get_active_alerts_unfiltered(al) == al

\* [alert for alert in self.alerts if alert['status'] == 'PENDING']
get_active_alerts(al) == SelectSeq(al, LAMBDA alert : alert.status = "PENDING")

\* an acknowledgment that flips the status instead of setting it
mark_alert_processed_toggle(al, alert_id) ==
    IF 0 <= alert_id /\ alert_id < Len(al)
    THEN [alerts |-> [al EXCEPT ![alert_id + 1].status =
                         IF @ = "PENDING" THEN "PROCESSED" ELSE "PENDING"],
          ret |-> TRUE]
    ELSE [alerts |-> al, ret |-> FALSE]

\* an acknowledgment without the lower bound of the index test: a negative
\* index counts from the end of the list
mark_alert_processed_negative_index(al, alert_id) ==
    IF -Len(al) <= alert_id /\ alert_id < Len(al)
    THEN [alerts |-> [al EXCEPT ![(alert_id % Len(al)) + 1].status = "PROCESSED"],
          ret |-> TRUE]
    ELSE [alerts |-> al, ret |-> FALSE]

\* self.alerts after mark_alert_processed(alert_id), and its result
mark_alert_processed(al, alert_id) ==
    IF 0 <= alert_id /\ alert_id < Len(al)
    THEN [alerts |-> [al EXCEPT ![alert_id + 1].status = "PROCESSED"], ret |-> TRUE]
    ELSE [alerts |-> al, ret |-> FALSE]

(***************************************************************************)
(* SystemIntegrations.  A dict that a method returns is a record of kind   *)
(* "dict"; the module imports nothing, so the names datetime and timedelta *)
(* that setup_sync_schedule reads are undefined.                           *)
(***************************************************************************)
validate_credentials(system_type, credentials) == TRUE

\* f"{system_type}_connection"
create_connection(system_type, credentials) == <<system_type, "_connection">>

create_data_mapping(system_type) ==
    [kind |-> "dict",
     inventory |-> <<system_type, "_inventory_field">>,
     orders |-> <<system_type, "_orders_field">>,
     customers |-> <<system_type, "_customers_field">>]

\* datetime.now() + timedelta(days=1): NameError, neither name is defined
setup_sync_schedule(system_type, frequency) == Raise("NameError")

\* active_integrations after setup_api_integration(system_type, credentials),
\* and its result; the dict of lines 27-32 is built after the integration is
\* stored, and the exception of setup_sync_schedule leaves the method
setup_api_integration(ai, system_type, credentials) ==
    IF ~validate_credentials(system_type, credentials)
    THEN [active_integrations |-> ai,
          ret |-> [kind |-> "dict", status |-> "error",
                   message |-> "Invalid credentials"]]
    ELSE LET connection == create_connection(system_type, credentials)
             stored == (system_type :> [connection |-> connection,
                                        credentials |-> credentials,
                                        status |-> "ACTIVE"]) @@ ai
             data_mapping == create_data_mapping(system_type)
             sync_schedule == setup_sync_schedule(system_type, "daily")
         IN  [active_integrations |-> stored,
              ret |-> IF sync_schedule.kind = "raise" THEN sync_schedule
                      ELSE [kind |-> "dict", status |-> "success",
                            connection |-> connection,
                            data_mapping |-> data_mapping,
                            sync_schedule |-> sync_schedule]]

sync_data(ai, system_type) ==
    IF system_type \notin DOMAIN ai
    THEN [kind |-> "dict", status |-> "error", message |-> "Integration not set up"]
    ELSE [kind |-> "dict", status |-> "success", records_synced |-> 42]

(***************************************************************************)
(* The operations as steps of the program.                                 *)
(***************************************************************************)
\* the record kept of an operation: its name, arguments and result, and the
\* ledger it was called on
Called(op, arg, ret) ==
    [op |-> op, arg |-> arg, ret |-> ret,
     pre_stock |-> current_stock, pre_len |-> Len(stock_history),
     pre_history |-> stock_history,
     pre_alerts |-> alerts, pre_files |-> files,
     pre_integrations |-> active_integrations]

\* an empty reports/ directory
NoFiles == <<>>

\* no caller inside a ledger operation
NoThreads == <<>>

\* SystemIntegrations.__init__: self.active_integrations = {}
NoIntegrations == <<>>

\* InventoryTracker(initial_stock, analyzer): main.py passes 2000, the default is 0
InitialStocks == {INITIAL_STOCK, safety_stock, reorder_point}

Init ==
    /\ df \in Datasets
    /\ current_stock \in InitialStocks
    /\ stock_history = <<>>
    /\ alerts = <<>>
    /\ files = NoFiles
    /\ threads = NoThreads
    /\ active_integrations = NoIntegrations
    /\ call = Called("__init__", <<>>, None)
    /\ roundtrip = None

UpdateStock(q) ==
    /\ Len(stock_history) < MaxHistory
    /\ LET r == update_stock(current_stock, stock_history, q, "Consumption")
       IN  /\ current_stock' = r.current_stock
           /\ stock_history' = r.stock_history
           /\ call' = Called("update_stock", <<q>>, r.ret)
    /\ roundtrip' = None
    /\ UNCHANGED <<df, alerts, files, threads, active_integrations>>

RecordReceipt(q) ==
    /\ Len(stock_history) < MaxHistory
    /\ LET r == record_receipt(current_stock, stock_history, q)
       IN  /\ current_stock' = r.current_stock
           /\ stock_history' = r.stock_history
           /\ call' = Called("record_receipt", <<q>>, r.ret)
    /\ roundtrip' = IF call.op = "update_stock" /\ call.arg = <<q>>
                    THEN [kind |-> "roundtrip",
                          stock0 |-> call.pre_stock, len0 |-> call.pre_len]
                    ELSE None
    /\ UNCHANGED <<df, alerts, files, threads, active_integrations>>

GetStockStatus ==
    /\ call' = Called("get_stock_status", <<>>, get_stock_status(current_stock))
    /\ roundtrip' = None
    /\ UNCHANGED <<df, current_stock, stock_history, alerts, files, threads, active_integrations>>

GetStockHistory ==
    /\ call' = Called("get_stock_history", <<>>, get_stock_history(stock_history))
    /\ roundtrip' = None
    /\ UNCHANGED <<df, current_stock, stock_history, alerts, files, threads, active_integrations>>

\* the caller drops the last row of the history it was handed: the rows of a
\* DataFrame are its own, a list would be the ledger's self.stock_history
CallerEditsHistory ==
    /\ call.op = "get_stock_history"
    /\ call.ret.rows # <<>>
    /\ LET edited == SubSeq(call.ret.rows, 1, Len(call.ret.rows) - 1)
       IN  /\ stock_history' = IF call.ret.kind = "DataFrame"
                               THEN stock_history ELSE edited
           /\ call' = Called("caller_edits_history", <<>>,
                             [call.ret EXCEPT !.rows = edited])
    /\ roundtrip' = None
    /\ UNCHANGED <<df, current_stock, alerts, files, threads, active_integrations>>

\* arguments of check_conditions: <<current_demand, avg_demand, std_demand>>
DemandInputs ==
    {<<200, 150, Float(25)>>, <<201, 150, Float(25)>>, <<151, 150, NaN>>}

\* arguments of check_conditions: <<current_cost, avg_cost>>, in hundredths
CostInputs == {<<11000, 10000>>, <<11001, 10000>>}

CheckConditions(d, c) ==
    /\ Len(alerts) < MaxAlerts
    /\ alerts' = check_conditions(alerts, current_stock, d[1], d[2], d[3], c[1], c[2])
    /\ call' = Called("check_conditions", <<d[1], d[2], d[3], c[1], c[2]>>,
                      check_conditions_return(alerts, alerts'))
    /\ roundtrip' = None
    /\ UNCHANGED <<df, current_stock, stock_history, files, threads, active_integrations>>

\* alert types passed to send_notification by a direct caller
NotificationInputs == {"LOW_STOCK", "COST_SPIKE"}

SendNotification(t) ==
    /\ Len(alerts) < MaxAlerts
    /\ alerts' = send_notification(alerts, t, <<"message">>)
    /\ call' = Called("send_notification", <<t>>, new_alert(t, <<"message">>))
    /\ roundtrip' = None
    /\ UNCHANGED <<df, current_stock, stock_history, files, threads, active_integrations>>

GetActiveAlerts ==
    /\ call' = Called("get_active_alerts", <<>>,
                      [kind |-> "list", rows |-> get_active_alerts(alerts)])
    /\ roundtrip' = None
    /\ UNCHANGED <<df, current_stock, stock_history, alerts, files, threads, active_integrations>>

MarkAlertProcessed(i) ==
    /\ LET r == mark_alert_processed(alerts, i)
       IN  /\ alerts' = r.alerts
           /\ call' = Called("mark_alert_processed", <<i>>, r.ret)
    /\ roundtrip' = None
    /\ UNCHANGED <<df, current_stock, stock_history, files, threads, active_integrations>>

\* the ledger's operations, with the dispatcher reading the ledger in between
NextLedger ==
    \/ \E q \in UsageQuantities : UpdateStock(q)
    \/ \E q \in UsageQuantities : RecordReceipt(q)
    \/ GetStockStatus
    \/ GetStockHistory
    \/ CallerEditsHistory
    \/ CheckConditions(<<201, 150, Float(25)>>, <<11000, 10000>>)

SpecLedger == Init /\ [][NextLedger]_vars

\* the alert dispatcher's operations, over a ledger in any of its initial states
NextAlerts ==
    \/ \E d \in DemandInputs, c \in CostInputs : CheckConditions(d, c)
    \/ \E t \in NotificationInputs : SendNotification(t)
    \/ GetActiveAlerts
    \/ \E i \in -1..Len(alerts) : MarkAlertProcessed(i)

SpecAlerts == Init /\ [][NextAlerts]_vars

(***************************************************************************)
(* The dashboard: one execution of main() (main.py, lines 144-275) over    *)
(* the module-level tracker and dispatcher.                                *)
(***************************************************************************)
\* values typed into "Current Stock (kg)" (min_value=0)
StockInputs == {0, safety_stock, reorder_point + 1}

\* the button pressed in this run, if any, and the quantity typed next to it
Clicks ==
    {<<"none", 0>>} \cup ({"Record Usage", "Record Receipt"} \X UsageQuantities)

Render(v, click) ==
    \* number_input(min_value=0, value=current_stock) raises below the minimum
    /\ current_stock >= 0
    /\ Len(alerts) < MaxAlerts
    /\ click[1] # "none" => Len(stock_history) < MaxHistory
    /\ LET kpis == kpis_of[df]
           \* inventory_tracker.current_stock = current_stock
           r == IF click[1] = "Record Usage"
                THEN update_stock(v, stock_history, click[2], "Daily Consumption")
                ELSE IF click[1] = "Record Receipt"
                THEN record_receipt(v, stock_history, click[2])
                ELSE [current_stock |-> v, stock_history |-> stock_history,
                      ret |-> None]
       IN  /\ current_stock' = r.current_stock
           /\ stock_history' = r.stock_history
           /\ alerts' = check_conditions(alerts, r.current_stock, 150,
                            kpis.avg_order_size.num \div kpis.avg_order_size.den,
                            kpis.std_order_size,
                            (TRANSPORT_COST * 115) \div 100, TRANSPORT_COST)
    /\ call' = Called("main", <<v, click[1], click[2]>>, None)
    /\ roundtrip' = None
    /\ UNCHANGED <<df, files, threads, active_integrations>>

InitDashboard == Init /\ current_stock = INITIAL_STOCK

NextDashboard ==
    \E v \in StockInputs \cup {current_stock}, click \in Clicks : Render(v, click)

SpecDashboard == InitDashboard /\ [][NextDashboard]_vars

(***************************************************************************)
(* The analyzer's operations, called on the loaded dataset.                *)
(***************************************************************************)
CalculateKpis ==
    /\ call' = Called("calculate_kpis", <<>>, calculate_kpis(df))
    /\ roundtrip' = None
    /\ UNCHANGED <<df, current_stock, stock_history, alerts, files, threads, active_integrations>>

CalculateEoq ==
    /\ call' = Called("calculate_eoq", <<>>, Float(calculate_eoq(df)))
    /\ roundtrip' = None
    /\ UNCHANGED <<df, current_stock, stock_history, alerts, files, threads, active_integrations>>

\* factors by which a configuration scales TRANSPORT_COST and PRICE_PER_KG
ScaleFactors == {2, 3}

\* calculate_eoq() under INVENTORY_PARAMETERS with the transport cost and
\* the price per kg (and with it the holding cost) multiplied by k
CalculateEoqScaled(k) ==
    /\ call' = Called("calculate_eoq", <<k>>,
                      Float(eoq_formula(calculate_kpis(df).avg_monthly_demand,
                                        TRANSPORT_COST * k,
                                        HOLDING_RATE * (PRICE_PER_KG * k))))
    /\ roundtrip' = None
    /\ UNCHANGED <<df, current_stock, stock_history, alerts, files, threads, active_integrations>>

CalculateSafetyStock ==
    /\ call' = Called("calculate_safety_stock", <<>>, Float(calculate_safety_stock(df)))
    /\ roundtrip' = None
    /\ UNCHANGED <<df, current_stock, stock_history, alerts, files, threads, active_integrations>>

\* the EOQ passed to calculate_cost_savings: calculate_eoq() (main.py line 36,
\* advanced_reporting.py line 114), or the EOQ of a dataset without demand
EoqInputs == {calculate_eoq(df), 0}

CalculateCostSavings(eoq) ==
    /\ call' = Called("calculate_cost_savings", <<eoq>>, calculate_cost_savings(df, eoq))
    /\ roundtrip' = None
    /\ UNCHANGED <<df, current_stock, stock_history, alerts, files, threads, active_integrations>>

ForecastDemand(outcome) ==
    /\ call' = Called("forecast_demand", <<outcome>>, forecast_demand(df, outcome))
    /\ roundtrip' = None
    /\ UNCHANGED <<df, current_stock, stock_history, alerts, files, threads, active_integrations>>

InitAnalyzer == Init /\ current_stock = INITIAL_STOCK

NextAnalyzer ==
    \/ CalculateKpis
    \/ CalculateEoq
    \/ \E k \in ScaleFactors : CalculateEoqScaled(k)
    \/ CalculateSafetyStock
    \/ \E eoq \in EoqInputs : CalculateCostSavings(eoq)
    \/ \E outcome \in ProphetOutcomes : ForecastDemand(outcome)

SpecAnalyzer == InitAnalyzer /\ [][NextAnalyzer]_vars

(***************************************************************************)
(* Report generation and the forecast tab of the dashboard.                *)
(***************************************************************************)
CreateVersionedFile ==
    /\ call' = Called("create_versioned_file", <<BaseFilename>>,
                      create_versioned_file(files, BaseFilename))
    /\ roundtrip' = None
    /\ UNCHANGED <<df, current_stock, stock_history, alerts, files, threads, active_integrations>>

GenerateCustomReport(forecast_outcome, chart_outcome, output_outcome) ==
    /\ Cardinality(DOMAIN files) < MaxFiles
    /\ LET r == generate_custom_report(df, files, BaseFilename, forecast_outcome,
                                       chart_outcome, output_outcome)
       IN  /\ files' = r.files
           /\ call' = Called("generate_custom_report",
                             <<forecast_outcome, chart_outcome, output_outcome>>, r.ret)
    /\ roundtrip' = None
    /\ UNCHANGED <<df, current_stock, stock_history, alerts, threads, active_integrations>>

\* forecast_data = analyzer.forecast_demand() and what tab2 shows for it
ForecastTab(outcome) ==
    /\ call' = Called("forecast_tab", <<outcome>>,
                      forecast_tab(forecast_demand(df, outcome)))
    /\ roundtrip' = None
    /\ UNCHANGED <<df, current_stock, stock_history, alerts, files, threads, active_integrations>>

\* files found in reports/ when the program starts: the base name and its
\* versions below MaxFiles, in any combination
InitialFiles ==
    LET name == splitext(BaseFilename)[1]
        ext == splitext(BaseFilename)[2]
        paths == {BaseFilename}
                 \cup {versioned_name(name, v, ext) : v \in 1..(MaxFiles - 1)}
    IN  {[p \in present |-> [kind |-> "pdf", sections |-> <<>>]] :
            present \in SUBSET paths}

InitReports ==
    /\ df \in {d \in Datasets : Len(d) = 1}
    /\ current_stock = INITIAL_STOCK
    /\ stock_history = <<>>
    /\ alerts = <<>>
    /\ files \in InitialFiles
    /\ threads = NoThreads
    /\ active_integrations = NoIntegrations
    /\ call = Called("__init__", <<>>, None)
    /\ roundtrip = None

NextReports ==
    \/ \E outcome \in ProphetOutcomes : ForecastDemand(outcome)
    \/ CreateVersionedFile
    \/ \E f \in ProphetOutcomes, c \in ChartOutcomes, o \in OutputOutcomes :
           GenerateCustomReport(f, c, o)
    \/ \E outcome \in ProphetOutcomes : ForecastTab(outcome)

SpecReports == InitReports /\ [][NextReports]_vars

(***************************************************************************)
(* Concurrent callers of the ledger.  Neither InventoryTracker nor main.py *)
(* takes a lock, so a consumption or a receipt is a sequence of steps of   *)
(* its thread: the read and the write of `current_stock -= q`, the append  *)
(* of _log_transaction (which reads current_stock again), and the reorder  *)
(* test.  Another thread may run between any two of them.                  *)
(***************************************************************************)
\* quantities of the concurrent calls
ConcurrentQuantities == {1, 2}

LedgerOperations == {"update_stock", "record_receipt"}

\* a thread enters update_stock(q) or the "Record Receipt" branch with q
ThreadCall(op, q) ==
    /\ Len(threads) < MaxThreads
    /\ threads' = Append(threads,
                         [op |-> op, quantity |-> q, pc |-> "load", loaded |-> 0,
                          written |-> 0, logged |-> 0, ret |-> None])
    /\ UNCHANGED <<df, current_stock, stock_history, alerts, call, roundtrip, files,
                   active_integrations>>

\* self.current_stock -= quantity_used: the attribute is read ...
ThreadLoad(t) ==
    /\ threads[t].pc = "load"
    /\ threads' = [threads EXCEPT ![t].loaded = current_stock, ![t].pc = "store"]
    /\ UNCHANGED <<df, current_stock, stock_history, alerts, call, roundtrip, files,
                   active_integrations>>

\* ... and the difference (the sum, for a receipt) is written back
ThreadStore(t) ==
    /\ threads[t].pc = "store"
    /\ LET s == IF threads[t].op = "update_stock"
                THEN threads[t].loaded - threads[t].quantity
                ELSE threads[t].loaded + threads[t].quantity
       IN  /\ current_stock' = s
           /\ threads' = [threads EXCEPT ![t].written = s, ![t].pc = "log"]
    /\ UNCHANGED <<df, stock_history, alerts, call, roundtrip, files, active_integrations>>

\* _log_transaction: the entry takes its balance from self.current_stock
ThreadLog(t) ==
    /\ threads[t].pc = "log"
    /\ stock_history' =
           log_transaction(stock_history, current_stock, threads[t].quantity,
                           IF threads[t].op = "update_stock"
                           THEN "Consumption" ELSE "Stock Receipt")
    /\ threads' = [threads EXCEPT
                       ![t].logged = current_stock,
                       ![t].pc = IF threads[t].op = "update_stock"
                                 THEN "check" ELSE "done"]
    /\ UNCHANGED <<df, current_stock, alerts, call, roundtrip, files, active_integrations>>

\* return self.check_reorder_point()
ThreadCheck(t) ==
    /\ threads[t].pc = "check"
    /\ threads' = [threads EXCEPT ![t].ret = check_reorder_point(current_stock),
                                  ![t].pc = "done"]
    /\ UNCHANGED <<df, current_stock, stock_history, alerts, call, roundtrip, files,
                   active_integrations>>

InitThreads == Init /\ current_stock = INITIAL_STOCK /\ Len(df) = 1

NextThreads ==
    \/ \E op \in LedgerOperations, q \in ConcurrentQuantities : ThreadCall(op, q)
    \/ \E t \in 1..Len(threads) : ThreadLoad(t)
    \/ \E t \in 1..Len(threads) : ThreadStore(t)
    \/ \E t \in 1..Len(threads) : ThreadLog(t)
    \/ \E t \in 1..Len(threads) : ThreadCheck(t)

SpecThreads == InitThreads /\ [][NextThreads]_vars

(***************************************************************************)
(* The integration stubs.                                                  *)
(***************************************************************************)
\* system types of supported_integrations, and one that is not listed
SystemTypes == {"SAP", "QuickBooks", "unlisted"}

\* credentials a caller passes: a dict, or nothing
Credentials == {[kind |-> "dict", api_key |-> "key"], None}

SetupApiIntegration(system_type, credentials) ==
    /\ LET r == setup_api_integration(active_integrations, system_type, credentials)
       IN  /\ active_integrations' = r.active_integrations
           /\ call' = Called("setup_api_integration", <<system_type, credentials>>,
                             r.ret)
    /\ roundtrip' = None
    /\ UNCHANGED <<df, current_stock, stock_history, alerts, files, threads>>

SyncData(system_type) ==
    /\ call' = Called("sync_data", <<system_type>>,
                      sync_data(active_integrations, system_type))
    /\ roundtrip' = None
    /\ UNCHANGED <<df, current_stock, stock_history, alerts, files, threads,
                   active_integrations>>

InitIntegrations == Init /\ current_stock = INITIAL_STOCK /\ Len(df) = 1

NextIntegrations ==
    \/ \E system_type \in SystemTypes, credentials \in Credentials :
           SetupApiIntegration(system_type, credentials)
    \/ \E system_type \in SystemTypes : SyncData(system_type)

SpecIntegrations == InitIntegrations /\ [][NextIntegrations]_vars

\* DataLoader.load_orders(filepath) on a loader that has loaded nothing yet
LoadOrders(rows) ==
    /\ call.op = "__init__"
    /\ df' = load_orders(rows)
    /\ call' = Called("load_orders", <<>>, df')
    /\ roundtrip' = None
    /\ UNCHANGED <<current_stock, stock_history, alerts, files, threads,
                   active_integrations>>

\* calculate_kpis on the loaded data, for its 'container_utilization' entry
CalculateContainerUtilization ==
    /\ call.op = "load_orders"
    /\ call' = Called("calculate_kpis", <<>>,
                      [kind |-> "dict",
                       container_utilization |-> container_utilization(df)])
    /\ roundtrip' = None
    /\ UNCHANGED <<df, current_stock, stock_history, alerts, files, threads,
                   active_integrations>>

\* DataLoader.__init__: self.df = None, shown as the empty table
InitLoader ==
    /\ df = <<>>
    /\ current_stock = INITIAL_STOCK
    /\ stock_history = <<>>
    /\ alerts = <<>>
    /\ files = NoFiles
    /\ threads = NoThreads
    /\ active_integrations = NoIntegrations
    /\ call = Called("__init__", <<>>, None)
    /\ roundtrip = None

NextLoader ==
    \/ \E rows \in CsvFiles : LoadOrders(rows)
    \/ CalculateContainerUtilization

SpecLoader == InitLoader /\ [][NextLoader]_vars

(***************************************************************************)
(* Properties.                                                             *)
(***************************************************************************)
StatusOf(stock) == get_stock_status(stock).status

Severity(status) ==
    IF status = "CRITICAL" THEN 2 ELSE IF status = "LOW" THEN 1 ELSE 0

\* the alerts the last operation appended
NewAlerts == SubSeq(alerts, Len(call.pre_alerts) + 1, Len(alerts))

OfType(al, types) == SelectSeq(al, LAMBDA alert : alert.type \in types)

RECURSIVE NetLogged(_)
\* receipts logged minus consumption logged
NetLogged(history) ==
    IF history = <<>> THEN 0
    ELSE LET e == history[Len(history)]
         IN  NetLogged(SubSeq(history, 1, Len(history) - 1))
             + (IF e.type = "Stock Receipt" THEN e.quantity ELSE -e.quantity)

\* C1: a consumption of q directly followed by a receipt of q leaves
\* current_stock at its value before the consumption and the log longer by
\* exactly two entries.
C1_ConsumeThenReceiveRestoresStock ==
    roundtrip # None =>
        /\ current_stock = roundtrip.stock0
        /\ Len(stock_history) = roundtrip.len0 + 2

C1_Witness ==
    /\ roundtrip # None
    /\ call.arg = <<2500>>
    /\ current_stock = INITIAL_STOCK
    /\ stock_history[1].balance < 0

\* C2: update_stock(q) returns an alert exactly when the stock after
\* subtracting q is at or below the reorder point, and None otherwise.
C2_UpdateStockAlertsAtOrBelowReorderPoint ==
    call.op = "update_stock" =>
        /\ current_stock = call.pre_stock - call.arg[1]
        /\ (call.ret # None) <=> (current_stock <= reorder_point)
        /\ call.ret # None => call.ret.kind = "alert"

C2_Witness ==
    /\ call.op = "update_stock"
    /\ call.arg[1] > 0
    /\ current_stock = reorder_point
    /\ call.pre_stock > reorder_point
    /\ call.ret # None

C4_StatusBands ==
    call.op = "get_stock_status" =>
        /\ call.ret.status \in {"CRITICAL", "LOW", "NORMAL"}
        /\ (call.ret.status = "CRITICAL") <=> (current_stock <= safety_stock)
        /\ (call.ret.status = "LOW") <=>
               (safety_stock < current_stock /\ current_stock <= reorder_point)
        /\ (call.ret.status = "NORMAL") <=>
               (current_stock > safety_stock /\ current_stock > reorder_point)

C4_Witness ==
    /\ call.op = "get_stock_status"
    /\ current_stock = safety_stock
    /\ safety_stock < reorder_point
    /\ call.ret.status = "CRITICAL"
    /\ stock_history # <<>>

\* C5: in every state the dashboard reaches, current_stock is the initial
\* stock minus the logged consumption plus the logged receipts and, when the
\* log is not empty, the balance of its last entry.
C5_StockMatchesLog ==
    /\ current_stock = INITIAL_STOCK + NetLogged(stock_history)
    /\ stock_history # <<>> =>
           current_stock = stock_history[Len(stock_history)].balance

\* C6: the reorder point the tracker uses is calculate_eoq() +
\* calculate_safety_stock(): the value of the property is that sum, and the
\* alert of update_stock and the NORMAL status are decided against it.
C6_ReorderPointIsEoqPlusSafetyStock ==
    LET sum == eoq_of[df] + safety_stock_of[df]
    IN  /\ reorder_point = sum
        /\ call.op = "update_stock" => ((call.ret # None) <=> (current_stock <= sum))
        /\ call.op = "get_stock_status" =>
               ((call.ret.status = "NORMAL") <=> (current_stock > sum))

C6_Witness ==
    /\ call.op = "update_stock"
    /\ safety_stock_of[df] > 0
    /\ current_stock > eoq_of[df]
    /\ current_stock <= eoq_of[df] + safety_stock_of[df]
    /\ call.ret # None

C8_StatusOnlyPendingToProcessed ==
    /\ Len(alerts) >= Len(call.pre_alerts)
    /\ \A i \in 1..Len(call.pre_alerts) :
           alerts[i].status # call.pre_alerts[i].status =>
               /\ call.op = "mark_alert_processed"
               /\ call.pre_alerts[i].status = "PENDING"
               /\ alerts[i].status = "PROCESSED"
    /\ \A i \in (Len(call.pre_alerts) + 1)..Len(alerts) :
           alerts[i].status = "PENDING"

C8_Witness ==
    /\ call.op = "mark_alert_processed"
    /\ call.ret = TRUE
    /\ call.pre_alerts[call.arg[1] + 1].status = "PROCESSED"
    /\ alerts = call.pre_alerts
    /\ \E j \in 1..Len(alerts) : alerts[j].status = "PENDING"

\* C9: a check_conditions call appends at most one stock alert: LOW_STOCK
\* with priority HIGH when the status is CRITICAL, REORDER_DUE with priority
\* MEDIUM when it is LOW, none when it is NORMAL.
C9_StockRule ==
    call.op = "check_conditions" =>
        LET stock_alerts == OfType(NewAlerts, {"LOW_STOCK", "REORDER_DUE"})
            status == StatusOf(current_stock)
        IN  /\ Len(stock_alerts) <= 1
            /\ status = "NORMAL" => stock_alerts = <<>>
            /\ status = "CRITICAL" =>
                   /\ Len(stock_alerts) = 1
                   /\ stock_alerts[1].type = "LOW_STOCK"
                   /\ stock_alerts[1].priority = "HIGH"
            /\ status = "LOW" =>
                   /\ Len(stock_alerts) = 1
                   /\ stock_alerts[1].type = "REORDER_DUE"
                   /\ stock_alerts[1].priority = "MEDIUM"

C9_Witness ==
    /\ call.op = "check_conditions"
    /\ StatusOf(current_stock) = "LOW"
    /\ call.pre_alerts # <<>>
    /\ Len(OfType(NewAlerts, {"REORDER_DUE"})) = 1

\* C10: a check_conditions call appends one UNUSUAL_DEMAND alert with
\* priority MEDIUM exactly when |current_demand - avg_demand| > 2 * std_demand,
\* whatever the stock status and the costs; otherwise it appends none.
C10_DemandRule ==
    call.op = "check_conditions" =>
        LET demand_alerts == OfType(NewAlerts, {"UNUSUAL_DEMAND"})
            current_demand == call.arg[1]
            avg_demand == call.arg[2]
            std_demand == call.arg[3]
            exceeds == /\ ~std_demand.nan
                       /\ Abs(current_demand - avg_demand) > 2 * std_demand.val
        IN  /\ exceeds => /\ Len(demand_alerts) = 1
                          /\ demand_alerts[1].priority = "MEDIUM"
            /\ ~exceeds => demand_alerts = <<>>

C10_Witness ==
    /\ call.op = "check_conditions"
    /\ call.arg[1] = 201 /\ call.arg[2] = 150 /\ call.arg[3] = Float(25)
    /\ StatusOf(current_stock) = "NORMAL"
    /\ ~cost_spike(call.arg[4], call.arg[5])
    /\ Len(NewAlerts) = 1
    /\ NewAlerts[1].type = "UNUSUAL_DEMAND"

\* C11: a check_conditions call appends one COST_SPIKE alert with priority
\* LOW exactly when current_cost > 1.1 * avg_cost (strictly), whatever the
\* stock status and the demand; at or below 1.1 * avg_cost it appends none.
C11_CostRule ==
    call.op = "check_conditions" =>
        LET cost_alerts == OfType(NewAlerts, {"COST_SPIKE"})
            current_cost == call.arg[4]
            avg_cost == call.arg[5]
            exceeds == 10 * current_cost > 11 * avg_cost
        IN  /\ exceeds => /\ Len(cost_alerts) = 1
                          /\ cost_alerts[1].priority = "LOW"
            /\ ~exceeds => cost_alerts = <<>>

\* the cost exactly 10 % above the average, next to a stock alert and a
\* demand alert: no COST_SPIKE
C11_Witness ==
    /\ call.op = "check_conditions"
    /\ call.arg[4] = 11000 /\ call.arg[5] = 10000
    /\ StatusOf(current_stock) = "CRITICAL"
    /\ demand_anomaly(call.arg[1], call.arg[2], call.arg[3])
    /\ Len(NewAlerts) = 2
    /\ OfType(NewAlerts, {"COST_SPIKE"}) = <<>>

\* C12: mark_alert_processed(i) with 0 <= i < len(alerts) sets the status of
\* the alert at position i to PROCESSED, changes no other alert and no other
\* field, and returns True, also when that alert was PROCESSED already; with
\* i negative or i >= len(alerts) it returns False and the list is unchanged.
C12_MarkAlertProcessed ==
    call.op = "mark_alert_processed" =>
        LET i == call.arg[1]
            pre == call.pre_alerts
        IN  IF 0 <= i /\ i < Len(pre)
            THEN /\ call.ret = TRUE
                 /\ Len(alerts) = Len(pre)
                 /\ alerts[i + 1] = [pre[i + 1] EXCEPT !.status = "PROCESSED"]
                 /\ \A j \in 1..Len(pre) : j # i + 1 => alerts[j] = pre[j]
            ELSE /\ call.ret = FALSE
                 /\ alerts = pre

\* the second of two pending alerts is acknowledged; the first stays pending
C12_Witness ==
    /\ call.op = "mark_alert_processed"
    /\ call.arg[1] = 1
    /\ call.ret = TRUE
    /\ Len(alerts) = 2
    /\ call.pre_alerts[2].status = "PENDING"
    /\ alerts[2].status = "PROCESSED"
    /\ alerts[1].status = "PENDING"

\* C13: get_active_alerts returns exactly the alerts whose status is PENDING,
\* in the order they were emitted, and does not change the alert list; an
\* alert that is PROCESSED stays so and is in no later result.
C13_ActiveAlertsArePending ==
    /\ \A i \in 1..Len(call.pre_alerts) :
           call.pre_alerts[i].status = "PROCESSED" => alerts[i].status = "PROCESSED"
    /\ call.op = "get_active_alerts" =>
           LET rows == call.ret.rows
               pending == {i \in 1..Len(alerts) : alerts[i].status = "PENDING"}
               \* the position in the list of the k-th pending alert
               nth(k) == CHOOSE i \in pending :
                             Cardinality({j \in pending : j < i}) = k - 1
           IN  /\ alerts = call.pre_alerts
               /\ Len(rows) = Cardinality(pending)
               /\ \A k \in 1..Len(rows) : rows[k] = alerts[nth(k)]

\* one alert acknowledged, a later one pending: the result holds the later one
C13_Witness ==
    /\ call.op = "get_active_alerts"
    /\ Len(alerts) = 2
    /\ alerts[1].status = "PROCESSED"
    /\ alerts[2].status = "PENDING"
    /\ call.ret.rows = <<alerts[2]>>

\* C14: in every result of calculate_cost_savings, savings is
\* max(0, current_cost - eoq_cost) and is not negative, and whenever
\* current_cost > 0 the percent_savings is at least 0 and below 100.
C14_SavingsClampedPercentBelow100 ==
    call.op = "calculate_cost_savings" =>
        LET r == call.ret
            difference == FloatSub(r.current_cost, r.eoq_cost)
        IN  /\ r.savings = IF FloatPositive(difference) THEN difference ELSE Float(0)
            /\ ~r.savings.nan /\ r.savings.inf >= 0 /\ r.savings.val >= 0
            /\ FloatPositive(r.current_cost) =>
                   /\ ~r.percent_savings.nan /\ r.percent_savings.inf = 0
                   /\ 0 <= r.percent_savings.val
                   /\ r.percent_savings.val < 10000

\* two orders 300 days apart: ordering by the EOQ would cost more than the
\* current orders do, and the savings are clamped to 0
C14_Witness ==
    /\ call.op = "calculate_cost_savings"
    /\ call.arg = <<calculate_eoq(df)>>
    /\ call.ret.current_cost.inf = 0 /\ call.ret.eoq_cost.inf = 0
    /\ 0 < call.ret.current_cost.val
    /\ call.ret.current_cost.val < call.ret.eoq_cost.val
    /\ call.ret.savings = Float(0)
    /\ call.ret.percent_savings = Float(0)

\* C15: when all orders fall on one day (time_span_days <= 0) calculate_kpis
\* returns current_monthly_volume = avg_monthly_demand and order_frequency =
\* 30; when time_span_days > 0 it returns total_volume / time_span_days * 30
\* and count / time_span_days * 30.
C15_MonthlyRatesFallBackOnOneDay ==
    call.op = "calculate_kpis" =>
        LET kpis == call.ret
            days == {df[i].Date : i \in 1..Len(df)}
            first == CHOOSE x \in days : \A y \in days : x <= y
            last == CHOOSE x \in days : \A y \in days : x >= y
            span == last - first
            volume == kpis.current_monthly_volume
            frequency == kpis.order_frequency
        IN  /\ volume.den > 0 /\ frequency.den > 0
            /\ span <= 0 =>
                   /\ volume = kpis.avg_monthly_demand
                   /\ frequency.num = 30 * frequency.den
            /\ span > 0 =>
                   /\ volume.num * span = kpis.total_volume * 30 * volume.den
                   /\ frequency.num * span = Len(df) * 30 * frequency.den

\* two orders of 150 kg on the same day: 4500 kg a month, 30 orders a month
C15_Witness ==
    /\ call.op = "calculate_kpis"
    /\ Len(df) = 2
    /\ df[1].Date = df[2].Date
    /\ call.ret.total_volume = 300
    /\ call.ret.current_monthly_volume = [num |-> 9000, den |-> 2]
    /\ call.ret.order_frequency = [num |-> 30, den |-> 1]

\* the error spec section 4.2 asks for when a cost division is undefined
InvalidInputError == [kind |-> "raise", exception |-> "InvalidInputError"]

\* C16: whenever avg_order_size is 0 or the EOQ it is given is 0,
\* calculate_cost_savings fails with an invalid-input error reported to the
\* caller instead of returning a result.
C16_ZeroOrderSizeIsRejected ==
    (/\ call.op = "calculate_cost_savings"
     /\ (calculate_kpis(df).avg_order_size.num = 0 \/ call.arg[1] = 0))
        => call.ret = InvalidInputError

RECURSIVE NetCalled(_)
\* receipts minus consumption over the calls of the threads
NetCalled(ts) ==
    IF ts = <<>> THEN 0
    ELSE NetCalled(Tail(ts))
         + (IF Head(ts).op = "record_receipt"
            THEN Head(ts).quantity ELSE -Head(ts).quantity)

\* C17: under every interleaving of concurrent consume/receive calls, each
\* log entry's balance is the stock right after that call's own mutation,
\* and once all calls have returned the stock is the initial stock minus
\* all consumed plus all received quantities and the log has one entry per
\* call.
C17_LedgerMutationsAtomic ==
    /\ \A t \in 1..Len(threads) :
           threads[t].pc \in {"check", "done"} =>
               threads[t].logged = threads[t].written
    /\ (\A t \in 1..Len(threads) : threads[t].pc = "done") =>
           /\ current_stock = INITIAL_STOCK + NetCalled(threads)
           /\ Len(stock_history) = Len(threads)

\* C18: create_versioned_file(base) returns a path that does not exist: base
\* itself when base is free, otherwise name_v{N}{ext} for the smallest N >= 1
\* whose name is free, found after at most as many steps as there are files;
\* so a report that is written goes to a path that did not exist, and every
\* file that existed keeps its content.
C18_VersionedFileIsFree ==
    LET name == SubSeq(BaseFilename, 1, Len(BaseFilename) - 1)
        ext == BaseFilename[Len(BaseFilename)]
        v(N) == name \o <<"_v", ToString(N), ext>>
    IN  /\ call.op = "create_versioned_file" =>
               /\ call.ret \notin DOMAIN files
               /\ BaseFilename \notin DOMAIN files => call.ret = BaseFilename
               /\ BaseFilename \in DOMAIN files =>
                      \E N \in 1..Cardinality(DOMAIN files) :
                          /\ call.ret = v(N)
                          /\ \A M \in 1..(N - 1) : v(M) \in DOMAIN files
        /\ (call.op = "generate_custom_report" /\ call.ret.kind = "path") =>
               /\ call.ret.path \notin DOMAIN call.pre_files
               /\ DOMAIN files = DOMAIN call.pre_files \cup {call.ret.path}
               /\ \A q \in DOMAIN call.pre_files : files[q] = call.pre_files[q]

\* the third report of a run: the base name and _v1 hold the first two
C18_Witness ==
    /\ call.op = "generate_custom_report"
    /\ call.ret.kind = "path"
    /\ call.ret.path = versioned_name(splitext(BaseFilename)[1], 2, ".pdf")
    /\ Cardinality(DOMAIN files) = 3
    /\ \A q \in DOMAIN files : files[q].kind = "pdf" /\ files[q].sections # <<>>

\* C19: when generate_custom_report fails, the failure is raised to the
\* caller and no file is left at the output path: the files are those that
\* existed before the call.
C19_FailureLeavesNoPartialFile ==
    (call.op = "generate_custom_report" /\ call.ret.kind # "path") =>
        /\ call.ret.kind = "raise"
        /\ files = call.pre_files

\* C20: a failure inside the forecast computation does not leave
\* forecast_demand: the call returns None; a report generated then holds the
\* no-forecast text and fails only if a chart or the output fails, and the
\* forecast tab of the dashboard shows its warning.
C20_ForecastFailureIsTolerated ==
    /\ call.op = "forecast_demand" =>
           /\ call.ret.kind # "raise"
           /\ call.arg[1] # "forecast" => call.ret = None
    /\ (call.op = "generate_custom_report" /\ call.arg[1] # "forecast") =>
           /\ call.ret.kind = "raise" =>
                  (call.arg[2] = "Exception" \/ call.arg[3] # "written")
           /\ call.ret.kind = "path" =>
                  LET sections == files[call.ret.path].sections
                      present == {sections[i] : i \in 1..Len(sections)}
                  IN  /\ "Forecast data could not be generated for this report."
                             \in present
                      /\ "demand_forecast chart" \notin present
    /\ (call.op = "forecast_tab" /\ call.arg[1] # "forecast") =>
           call.ret = <<"Unable to generate forecast. Please check data quality.">>

\* Prophet fails, the cost chart renders and the file is written
C20_Witness ==
    /\ call.op = "generate_custom_report"
    /\ call.arg = <<"ValueError", "rendered", "written">>
    /\ call.ret.kind = "path"
    /\ files[call.ret.path].sections[4] =
           "Forecast data could not be generated for this report."

\* C21: for a dataset with fewer than 2 orders calculate_kpis returns
\* std_order_size = 0, a number and not an undefined value.
C21_StdOfOneOrderIsZero ==
    (call.op = "calculate_kpis" /\ Len(df) < 2) =>
        call.ret.std_order_size = Float(0)

\* C22: the EOQ is unchanged when the transport cost and the holding-cost
\* term holding_rate * price_per_kg are both multiplied by the same positive
\* factor k, for every demand.
C22_EoqScaleInvariant ==
    (call.op = "calculate_eoq" /\ call.arg # <<>>) =>
        call.ret = Float(calculate_eoq(df))

\* both costs tripled over a demand of 4500 kg a month: the EOQ is still 1888
C22_Witness ==
    /\ call.op = "calculate_eoq"
    /\ call.arg = <<3>>
    /\ calculate_kpis(df).avg_monthly_demand = [num |-> 4500, den |-> 1]
    /\ call.ret = Float(1888)

\* C23: setup_api_integration returns a result with status 'success' for any
\* input and records the system as ACTIVE, after which sync_data returns
\* status 'success'; sync_data for a system that was never set up returns
\* status 'error' and leaves active_integrations unchanged.
C23_StubsReturnSuccess ==
    /\ call.op = "setup_api_integration" =>
           /\ call.ret.kind = "dict" /\ call.ret.status = "success"
           /\ call.arg[1] \in DOMAIN active_integrations
           /\ active_integrations[call.arg[1]].status = "ACTIVE"
    /\ call.op = "sync_data" =>
           /\ active_integrations = call.pre_integrations
           /\ call.ret.kind = "dict"
           /\ call.ret.status =
                  IF call.arg[1] \in DOMAIN call.pre_integrations
                  THEN "success" ELSE "error"

\* C24: update_stock never rejects, clamps or raises on a stock-out: for any
\* quantity, also one above the current stock, current_stock becomes the old
\* value minus the quantity (possibly negative), exactly one transaction is
\* appended whose balance is the new current_stock, and the stock-out is
\* reported only as the returned alert record.
C24_StockOutIsNotRejected ==
    call.op = "update_stock" =>
        /\ current_stock = call.pre_stock - call.arg[1]
        /\ Len(stock_history) = call.pre_len + 1
        /\ stock_history[Len(stock_history)].quantity = call.arg[1]
        /\ stock_history[Len(stock_history)].balance = current_stock
        /\ call.ret.kind \in {"alert", "None"}
        /\ current_stock < 0 => call.ret.kind = "alert"
        /\ alerts = call.pre_alerts

\* 2500 kg taken from a stock of 2000 kg
C24_Witness ==
    /\ call.op = "update_stock"
    /\ call.arg = <<2500>>
    /\ call.pre_stock = INITIAL_STOCK
    /\ current_stock = -500
    /\ stock_history[Len(stock_history)].balance = -500
    /\ call.ret.kind = "alert"

\* C25: the transaction log is append-only and ordered.  Every consumption and
\* every receipt appends exactly one entry at the end and leaves the earlier
\* entries as they were; get_stock_history returns the entries in append order
\* and changes neither the stock nor the log; and a change the caller makes to
\* the history it was handed does not reach the ledger's log.
C25_LogIsAppendOnly ==
    /\ Len(stock_history) >= Len(call.pre_history)
    /\ SubSeq(stock_history, 1, Len(call.pre_history)) = call.pre_history
    /\ call.op \in {"update_stock", "record_receipt"} =>
           /\ Len(stock_history) = Len(call.pre_history) + 1
           /\ stock_history[Len(stock_history)].quantity = call.arg[1]
    /\ call.op = "get_stock_history" =>
           /\ call.ret.rows = stock_history
           /\ stock_history = call.pre_history
           /\ current_stock = call.pre_stock
    /\ call.op = "caller_edits_history" =>
           /\ stock_history = call.pre_history
           /\ current_stock = call.pre_stock

C25_Witness ==
    /\ call.op = "caller_edits_history"
    /\ Len(stock_history) = 2
    /\ stock_history[1].type = "Consumption"
    /\ stock_history[2].type = "Stock Receipt"
    /\ Len(call.ret.rows) = 1

\* the number of rules of check_conditions that fire on the arguments of the
\* last call and the stock it read
RulesFired ==
    (IF StatusOf(current_stock) # "NORMAL" THEN 1 ELSE 0)
    + (IF demand_anomaly(call.arg[1], call.arg[2], call.arg[3]) THEN 1 ELSE 0)
    + (IF cost_spike(call.arg[4], call.arg[5]) THEN 1 ELSE 0)

\* the fields of an alert other than its status
WithoutStatus(alert) == [alert EXCEPT !.status = "PENDING"]

\* C26: the alert list is append-only.  Its length never decreases, every
\* check_conditions appends one new record for each rule that fires, also when
\* an identical PENDING alert is already in the list, and position i always
\* holds the same alert, whose fields other than status never change.
C26_AlertsAreAppendOnly ==
    /\ Len(alerts) >= Len(call.pre_alerts)
    /\ \A i \in 1..Len(call.pre_alerts) :
           WithoutStatus(alerts[i]) = WithoutStatus(call.pre_alerts[i])
    /\ call.op = "check_conditions" =>
           /\ Len(alerts) = Len(call.pre_alerts) + RulesFired
           /\ SubSeq(alerts, 1, Len(call.pre_alerts)) = call.pre_alerts
           /\ \A i \in 1..Len(NewAlerts) : NewAlerts[i].status = "PENDING"

C26_Witness ==
    /\ call.op = "check_conditions"
    /\ Len(call.pre_alerts) = 1
    /\ call.pre_alerts[1].status = "PENDING"
    /\ RulesFired = 1
    /\ Len(alerts) = 2
    /\ alerts[2] = alerts[1]

\* C27: the alert returned by update_stock agrees with the status of the
\* ledger afterwards: None exactly when the status is NORMAL, an alert of
\* priority MEDIUM exactly when it is LOW, and an alert of priority HIGH
\* exactly when it is CRITICAL.
C27_AlertAgreesWithStatus ==
    call.op = "update_stock" =>
        LET status == StatusOf(current_stock)
            alerted == call.ret.kind = "alert"
        IN  /\ call.ret = None <=> status = "NORMAL"
            /\ (alerted /\ call.ret.priority = "MEDIUM") <=> status = "LOW"
            /\ (alerted /\ call.ret.priority = "HIGH") <=> status = "CRITICAL"

C27_Witness ==
    /\ call.op = "update_stock"
    /\ StatusOf(current_stock) = "LOW"
    /\ safety_stock < current_stock
    /\ current_stock < reorder_point
    /\ call.ret.kind = "alert"
    /\ call.ret.priority = "MEDIUM"

\* C28: on every dataset the EOQ is at least 0 and so the safety stock is at
\* most the reorder point: a stock at or below the safety stock is at or below
\* the reorder point, and a consumption that leaves the ledger CRITICAL
\* returns an alert.
C28_CriticalBandInsideReorderBand ==
    /\ eoq_of[df] >= 0
    /\ safety_stock <= reorder_point
    /\ current_stock <= safety_stock => current_stock <= reorder_point
    /\ call.op = "update_stock" /\ StatusOf(current_stock) = "CRITICAL" =>
           call.ret.kind = "alert"

C28_Witness ==
    /\ call.op = "update_stock"
    /\ eoq_of[df] > 0
    /\ safety_stock > 0
    /\ StatusOf(current_stock) = "CRITICAL"
    /\ call.ret.kind = "alert"
    /\ call.ret.priority = "HIGH"

\* C29: check_conditions returns the dispatcher's whole alert list: the alerts
\* of earlier calls, the PROCESSED ones included, followed by the alerts of
\* this call.  Its result is therefore non-empty on every call made after the
\* first alert was emitted, also when no rule fires.
C29_CheckConditionsReturnsWholeList ==
    call.op = "check_conditions" =>
        /\ call.ret.kind = "list"
        /\ call.ret.rows = call.pre_alerts \o NewAlerts
        /\ call.ret.rows = alerts
        /\ call.pre_alerts # <<>> => call.ret.rows # <<>>

C29_Witness ==
    /\ call.op = "check_conditions"
    /\ RulesFired = 0
    /\ Len(call.pre_alerts) = 1
    /\ call.pre_alerts[1].status = "PROCESSED"
    /\ call.ret.rows = call.pre_alerts

\* C30: Containers_Used is the ceiling of Order_Quantity_kg / CONTAINER_SIZE
\* for every loaded order, the sum of the containers is zero only if no order
\* has a positive quantity, and for every non-empty loaded dataset whose order
\* quantities are all positive container_utilization lies in (0, 1].
C30_ContainerUtilizationInUnitInterval ==
    /\ \A i \in 1..Len(df) :
           /\ (df[i].Containers_Used - 1) * CONTAINER_SIZE < df[i].Order_Quantity_kg
           /\ df[i].Order_Quantity_kg <= df[i].Containers_Used * CONTAINER_SIZE
    /\ SeqSum([i \in 1..Len(df) |-> df[i].Containers_Used]) = 0 =>
           \A i \in 1..Len(df) : ~(df[i].Order_Quantity_kg > 0)
    /\ (/\ call.op = "calculate_kpis"
        /\ df # <<>>
        /\ \A i \in 1..Len(df) : df[i].Order_Quantity_kg > 0) =>
           LET u == call.ret.container_utilization
           IN  /\ ~u.nan
               /\ ~u.inf
               /\ 0 < u.num
               /\ u.num <= u.den

C30_Witness ==
    /\ call.op = "calculate_kpis"
    /\ Len(df) = 2
    /\ df[1].Order_Quantity_kg = 1
    /\ df[2].Order_Quantity_kg = 151
    /\ df[2].Containers_Used = 2
    /\ call.ret.container_utilization.num = 152
    /\ call.ret.container_utilization.den = 450

====
